---- MODULE Spec2Model ----
(***************************************************************************)
(* Market-data aggregator: the storage engine (src/src/database.py), the   *)
(* cleaning pipeline (src/src/data_cleaner.py), the fetch adapter          *)
(* (src/src/fetchers.py) and the ingestion script                          *)
(* (src/scripts/run_fetch_and_store.py).                                   *)
(*                                                                         *)
(* Three specifications share the variables:                               *)
(*   Spec       callers of the storage functions (create_db_tables,        *)
(*              insert_ohlcv_data, fetch_ohlcv_data) against one table;    *)
(*   CleanSpec  clean_ohlcv_data applied to a bounded family of frames;    *)
(*   IngestSpec the ingestion script's run over TICKERS.                   *)
(***************************************************************************)
EXTENDS Integers, Sequences, FiniteSets

VARIABLES
    engine,         \* database.engine: "ok", or "none" after a failed create_engine
    tableExists,    \* whether table ohlcv_data exists in the database
    ohlcv_data,     \* the rows of table ohlcv_data
    call,           \* the storage call that returned last, with its arguments and outcome
    prevRows,       \* the rows of the well-formed frame the insert_ohlcv_data call just before it was given
    repeated,       \* whether that call was given the very frame of the last call
    cleanIn,        \* the frame handed to clean_ohlcv_data
    cleanOut,       \* what clean_ohlcv_data did with it
    pc,             \* where the ingestion script is
    i,              \* the number of tickers the loop has finished
    total_success,  \* run_fetch_and_store.py line 43
    total_fail,     \* run_fetch_and_store.py line 44
    journal,        \* one entry per finished loop iteration
    smaSeries,      \* the data_series handed to calculate_sma
    smaWindow,      \* its window
    smaOut          \* the series calculate_sma returned

vars == <<engine, tableExists, ohlcv_data, call, prevRows, repeated, cleanIn, cleanOut,
          pc, i, total_success, total_fail, journal, smaSeries, smaWindow, smaOut>>

(***************************************************************************)
(* Bounds of the model.                                                    *)
(***************************************************************************)
MaxBatch == 2       \* rows in a frame handed to insert_ohlcv_data
MaxRows  == 2       \* rows in a frame handed to clean_ohlcv_data
MaxHist  == 1       \* rows in a history the provider returns
MaxDay   == 3       \* calendar days are 1..MaxDay
MaxLen   == 3       \* samples in a series handed to calculate_sma

Days == 1..MaxDay
NoDate == 0         \* Python None as start_date / end_date

SeqsUpTo(S, n) == UNION {[1..k -> S] : k \in 0..n}

Range(s) == {s[k] : k \in 1..Len(s)}

(***************************************************************************)
(* The table: database.py lines 21-32.  A row is a record over the seven   *)
(* columns; (ticker, date) is the primary key.                             *)
(***************************************************************************)
Row(t, d, o, h, l, c, v) ==
    [ticker |-> t, date |-> d, open |-> o, high |-> h, low |-> l,
     close |-> c, volume |-> v]

Key(r) == <<r.ticker, r.date>>

ohlcv_table == {"ticker", "date", "open", "high", "low", "close", "volume"}

\* PrimaryKeyConstraint('ticker', 'date'): no two rows share the key.
PrimaryKeyHolds(rows) ==
    \A r1 \in rows, r2 \in rows : Key(r1) = Key(r2) => r1 = r2

\* Rows the callers write, and rows the table may already hold.
CallerRows ==
    { Row("TST", 2, 101, 106, 100, 104, 1200),
      Row("TST", 2, 101, 106, 100, 110, 1300),
      Row("OTH", 2, 50, 55, 49, 52, 0) }

StoredRows ==
    CallerRows \cup
    { Row("TST", 1, 100, 105, 99, 103, 1000),
      Row("TST", 3, 104, 108, 103, 107, 900) }

\* What the durable table can hold when a process starts: the constraint has
\* admitted every row of it.
InitTables == {T \in SUBSET StoredRows : PrimaryKeyHolds(T)}

(***************************************************************************)
(* Frames handed to insert_ohlcv_data.  kind "None" is Python's None; a    *)
(* DataFrame has its columns, its rows in order, and a date column that    *)
(* pd.to_datetime can parse ("ok") or cannot ("unparsable").               *)
(***************************************************************************)
NoFrame == [kind |-> "None", cols |-> {}, rows |-> <<>>, dates |-> "ok"]

DataFrame(cols, rows, dates) ==
    [kind |-> "DataFrame", cols |-> cols, rows |-> rows, dates |-> dates]

InsertFrames ==
    {NoFrame}
    \cup {DataFrame(ohlcv_table, rs, "ok") : rs \in SeqsUpTo(CallerRows, MaxBatch)}
    \cup {DataFrame(ohlcv_table \ {"volume"}, <<r>>, "ok") : r \in CallerRows}
    \cup {DataFrame(ohlcv_table, <<r>>, "unparsable") : r \in CallerRows}

\* df.empty: no rows or no columns.
Empty(df) == Len(df.rows) = 0 \/ df.cols = {}

\* A frame that passes the checks of lines 63-74 and whose dates parse.
WellFormed(df) ==
    df.kind = "DataFrame" /\ ~Empty(df) /\ ohlcv_table \subseteq df.cols /\ df.dates = "ok"

(***************************************************************************)
(* database.py as a module: the names its own statements bind (imports of  *)
(* lines 3-8, assignments and defs).  A name outside this set raises       *)
(* NameError when a function of the module evaluates it.                   *)
(***************************************************************************)
ModuleGlobals ==
    {"create_engine", "MetaData", "Table", "Column", "String", "Date", "Numeric",
     "PrimaryKeyConstraint", "Index", "pg_insert", "SQLAlchemyError", "pd",
     "DATABASE_URI", "engine", "metadata", "ohlcv_table",
     "create_db_tables", "insert_ohlcv_data", "fetch_ohlcv_data"}

\* Lines 78-81: the list of dictionaries for the statement.  Line 79 parses the
\* date column (ValueError when it cannot); line 81 evaluates pd.NA and np.nan.
data_to_insert(df) ==
    IF df.dates # "ok" THEN [raised |-> "ValueError", records |-> <<>>]
    ELSE IF ~({"pd", "np"} \subseteq ModuleGlobals)
         THEN [raised |-> "NameError", records |-> <<>>]
    ELSE [raised |-> "", records |-> df.rows]

\* Lines 89-94: INSERT ... ON CONFLICT (ticker, date) DO UPDATE SET every
\* column but ticker and date from the proposed row.
OnConflictUpdate(old, new) ==
    [old EXCEPT !.open = new.open, !.high = new.high, !.low = new.low,
                !.close = new.close, !.volume = new.volume]

\* PostgreSQL refuses a statement that proposes one key twice ("ON CONFLICT DO
\* UPDATE command cannot affect row a second time").
ProposesKeyTwice(records) ==
    \E a, b \in 1..Len(records) : a # b /\ Key(records[a]) = Key(records[b])

upsert_stmt(T, records) ==
    LET Proposed(r) == {k \in 1..Len(records) : Key(records[k]) = Key(r)}
    IN  {r \in T : Proposed(r) = {}}
        \cup UNION {{OnConflictUpdate(r, records[k]) : k \in Proposed(r)} : r \in T}
        \cup {records[k] : k \in {n \in 1..Len(records) :
                                     \A r \in T : Key(r) # Key(records[n])}}

\* Variants of insert_ohlcv_data with a defect the function does not have.
\* On a conflicting key the stored volume grows by the proposed one.
insert_adding_on_conflict(e, exists, T, df, dbOk) ==
    IF e = "none" \/ df.kind = "None" \/ Empty(df) \/ ~(ohlcv_table \subseteq df.cols)
       \/ df.dates # "ok" \/ ~dbOk \/ ~exists \/ ProposesKeyTwice(df.rows)
    THEN [table |-> T, out |-> "database error", raised |-> ""]
    ELSE [table |-> {r \in T : \A q \in Range(df.rows) : Key(q) # Key(r)}
                    \cup {IF \E old \in T : Key(old) = Key(q)
                          THEN [q EXCEPT !.volume =
                                   @ + (CHOOSE old \in T : Key(old) = Key(q)).volume]
                          ELSE q : q \in Range(df.rows)},
          out |-> "successfully inserted/updated", raised |-> ""]

\* Each row is written and committed on its own; a row whose key an earlier
\* row of the frame has proposed stops the call.
RECURSIVE RowByRow(_, _)
RowByRow(T, records) ==
    IF Len(records) = 0 THEN T
    ELSE RowByRow(upsert_stmt(T, <<Head(records)>>), Tail(records))

insert_row_by_row(e, exists, T, df, dbOk) ==
    IF e = "none" \/ df.kind = "None" \/ Empty(df) \/ ~(ohlcv_table \subseteq df.cols)
       \/ df.dates # "ok" \/ ~dbOk \/ ~exists
    THEN [table |-> T, out |-> "database error", raised |-> ""]
    ELSE IF ProposesKeyTwice(df.rows)
    THEN [table |-> upsert_stmt(T, <<Head(df.rows)>>), out |-> "database error", raised |-> ""]
    ELSE [table |-> RowByRow(T, df.rows), out |-> "successfully inserted/updated", raised |-> ""]

(***************************************************************************)
(* insert_ohlcv_data, lines 54-104.  The result names the table afterwards,*)
(* the message printed (out) and the exception that left the function      *)
(* (raised, "" when it returned).                                          *)
(***************************************************************************)
InsertResult(T, out, raised) == [table |-> T, out |-> out, raised |-> raised]

insert_ohlcv_data(e, exists, T, df, dbOk) ==
    IF e = "none" THEN InsertResult(T, "engine not initialized", "")
    ELSE IF df.kind = "None" \/ Empty(df) THEN InsertResult(T, "no data provided", "")
    ELSE IF ~(ohlcv_table \subseteq df.cols) THEN InsertResult(T, "missing required columns", "")
    ELSE LET d == data_to_insert(df) IN
         IF d.raised # "" THEN InsertResult(T, "", d.raised)
         ELSE IF Len(d.records) = 0 THEN InsertResult(T, "nothing to insert", "")
         ELSE IF dbOk /\ exists /\ ~ProposesKeyTwice(d.records)
              THEN InsertResult(upsert_stmt(T, d.records), "successfully inserted/updated", "")
              ELSE InsertResult(T, "database error", "")

(***************************************************************************)
(* fetch_ohlcv_data, lines 107-147.                                        *)
(***************************************************************************)
\* Variants of the WHERE clauses with a defect the function does not have:
\* the ticker not compared, and the bounds exclusive.
SelectWhereAnyTicker(T, ticker, start_date, end_date) ==
    {r \in T : /\ (start_date # NoDate => r.date >= start_date)
               /\ (end_date # NoDate => r.date <= end_date)}

SelectWhereExclusive(T, ticker, start_date, end_date) ==
    {r \in T : /\ r.ticker = ticker
               /\ (start_date # NoDate => r.date > start_date)
               /\ (end_date # NoDate => r.date < end_date)}

\* Lines 124-129: the WHERE clauses.  "if start_date:" skips None.
SelectWhere(T, ticker, start_date, end_date) ==
    {r \in T : /\ r.ticker = ticker
               /\ (start_date # NoDate => r.date >= start_date)
               /\ (end_date # NoDate => r.date <= end_date)}

\* Line 131: ORDER BY date.
RECURSIVE OrderByDate(_)
OrderByDate(S) ==
    IF S = {} THEN <<>>
    ELSE LET first == CHOOSE r \in S : \A q \in S : r.date <= q.date
         IN  <<first>> \o OrderByDate(S \ {first})

FetchResult(out, rows) == [out |-> out, rows |-> rows]

fetch_ohlcv_data(e, exists, T, ticker, start_date, end_date, dbOk) ==
    IF e = "none" THEN FetchResult("engine not initialized", <<>>)
    ELSE IF dbOk /\ exists
         THEN FetchResult("fetched", OrderByDate(SelectWhere(T, ticker, start_date, end_date)))
         ELSE FetchResult("database error", <<>>)

(***************************************************************************)
(* create_db_tables, lines 36-51: metadata.create_all creates the table    *)
(* when it is absent.                                                      *)
(***************************************************************************)
create_db_tables(e, exists, dbOk) ==
    IF e = "none" THEN [ret |-> FALSE, exists |-> exists]
    ELSE IF dbOk THEN [ret |-> TRUE, exists |-> TRUE]
    ELSE [ret |-> FALSE, exists |-> exists]

(***************************************************************************)
(* Raw frames handed to clean_ohlcv_data.  A cell is a number, a string    *)
(* that spells a number, a string that does not, or NaN.  A row carries    *)
(* its index value at: a timestamp, two per calendar day (midnight, noon). *)
(***************************************************************************)
Num(n)  == [k |-> "num", v |-> n]
Str(n)  == [k |-> "str", v |-> n]
Bad     == [k |-> "bad", v |-> 0]
NaN     == [k |-> "nan", v |-> 0]

Midnight(day) == 2 * day
Noon(day)     == 2 * day + 1
\* Timestamp.date(): the calendar day, the time of day dropped.
DateOf(t)     == t \div 2

RawRow(t, o, h, l, c, v) ==
    [at |-> t, open |-> o, high |-> h, low |-> l, close |-> c, volume |-> v]

RawRows ==
    { RawRow(Midnight(1), Num(100), Num(105), Num(99), Bad, Num(1000)),
      RawRow(Midnight(2), Num(101), Num(106), Num(100), Num(104), Num(1200)),
      RawRow(Noon(2), Num(-5), Num(90), Num(95), Num(200), Num(0)),
      RawRow(Midnight(3), Str(102), Str(107), Str(101), Str(105), Str(1100)),
      RawRow(Noon(3), Num(102), Num(107), Num(101), Num(105), NaN) }

OHLCV == {"open", "high", "low", "close", "volume"}

\* index: "DatetimeIndex", "dates" (dates, date strings or integers, which
\* pd.to_datetime converts) or "labels" (which it cannot); name: the index's
\* name, "" for None; dates: whether a date column, when there is one, parses.
RawFrame(cols, index, name, dates, rows) ==
    [kind |-> "DataFrame", cols |-> cols, index |-> index, name |-> name,
     dates |-> dates, rows |-> rows]

NoRawFrame == [kind |-> "None", cols |-> {}, index |-> "dates", name |-> "",
               dates |-> "ok", rows |-> <<>>]

RawFrames ==
    {NoRawFrame}
    \cup { RawFrame(cols, index, name, dates, rows) :
             cols  \in {OHLCV, OHLCV \ {"volume"}, OHLCV \cup {"date"}},
             index \in {"DatetimeIndex", "dates", "labels"},
             name  \in {"date", "Date", ""},
             dates \in {"ok", "unparsable"},
             rows  \in SeqsUpTo(RawRows, MaxRows) }

(***************************************************************************)
(* clean_ohlcv_data, data_cleaner.py lines 6-112.                          *)
(***************************************************************************)
\* pd.to_numeric(errors='coerce'), line 57.
to_numeric(c) == IF c.k \in {"num", "str"} THEN Num(c.v) ELSE NaN

Coerced(r) ==
    [at |-> r.at, open |-> to_numeric(r.open), high |-> to_numeric(r.high),
     low |-> to_numeric(r.low), close |-> to_numeric(r.close),
     volume |-> to_numeric(r.volume)]

\* dropna(subset=cols_to_check_na), line 62: the rows that stay.
HasNoNaN(r) == \A col \in OHLCV : r[col].k # "nan"

\* A variant of the filter with a defect the function does not have: the rows
\* with High < Low go too (the statement line 76 leaves commented out).
dropna_and_invalid_hl(rows) ==
    LET Stays(r) == HasNoNaN(r) /\ r.high.v >= r.low.v
    IN  SelectSeq(rows, Stays)

dropna(rows) == SelectSeq(rows, HasNoNaN)

\* Lines 32-52: the index after step 1, or how the step ended the call.
\* name is the name of the index that reset_index will later move.
EnsureIndex(df) ==
    IF df.index = "DatetimeIndex" THEN [end |-> "", name |-> df.name]
    ELSE IF "date" \in df.cols
         THEN IF df.dates = "ok" THEN [end |-> "", name |-> "date"]
              ELSE [end |-> "ValueError", name |-> ""]
    ELSE IF df.index = "dates" THEN [end |-> "", name |-> df.name]
    ELSE [end |-> "None", name |-> ""]

\* reset_index, line 99: the index becomes a column named after it ("index",
\* or "level_0" when that is taken, for a nameless one); pandas raises
\* ValueError ("cannot insert ..., already exists") when the frame has the column.
reset_index_raises(cols, name) ==
    LET column == IF name # "" THEN name
                  ELSE IF "index" \in cols THEN "level_0" ELSE "index"
    IN  column \in cols

\* Lines 71-92: what the validation prints; it removes nothing.
Anomalies(rows) ==
    LET HL(r)  == r.high.v < r.low.v
        C(r)   == r.close.v > r.high.v \/ r.close.v < r.low.v
        O(r)   == r.open.v > r.high.v \/ r.open.v < r.low.v
        Z(r)   == r.volume.v = 0
        Neg(r) == \E col \in OHLCV : r[col].v < 0
    IN  [invalid_hl |-> Len(SelectSeq(rows, HL)), invalid_c |-> Len(SelectSeq(rows, C)),
         invalid_o |-> Len(SelectSeq(rows, O)), zero_vol |-> Len(SelectSeq(rows, Z)),
         negative |-> Len(SelectSeq(rows, Neg)) > 0]

NoAnomalies ==
    [invalid_hl |-> 0, invalid_c |-> 0, invalid_o |-> 0, zero_vol |-> 0,
     negative |-> FALSE]

\* Lines 105-112: the date part only, the ticker, the final columns.
final_cols(r, ticker) ==
    Row(ticker, DateOf(r.at), r.open.v, r.high.v, r.low.v, r.close.v, r.volume.v)

CleanResult(out, why, rows, report) ==
    [out |-> out, why |-> why, rows |-> rows, report |-> report]

Shaped(rows, ticker) == [k \in 1..Len(rows) |-> final_cols(rows[k], ticker)]

clean_ohlcv_data(df, ticker) ==
    IF df.kind = "None" \/ Empty(df)
    THEN CleanResult("None", "no data provided", <<>>, NoAnomalies)
    ELSE IF ~(OHLCV \subseteq df.cols)
    THEN CleanResult("None", "missing columns", <<>>, NoAnomalies)
    ELSE LET ix == EnsureIndex(df) IN
         IF ix.end = "None"
         THEN CleanResult("None", "needs a date index or column", <<>>, NoAnomalies)
         ELSE IF ix.end # ""
         THEN CleanResult("raised", ix.end, <<>>, NoAnomalies)
         ELSE LET kept == dropna([k \in 1..Len(df.rows) |-> Coerced(df.rows[k])]) IN
              IF Len(kept) = 0
              THEN CleanResult("None", "empty after dropping NaNs", <<>>, NoAnomalies)
              ELSE IF reset_index_raises(df.cols \cup {"date"}, ix.name)
              THEN CleanResult("raised", "ValueError", <<>>, Anomalies(kept))
              ELSE CleanResult("table", "", Shaped(kept, ticker), Anomalies(kept))

(***************************************************************************)
(* fetch_yfinance_data, fetchers.py lines 8-62.  The provider answers with *)
(* an error or with a history: a DatetimeIndex named "Date" and numeric    *)
(* cells (NaN where it has no value).                                      *)
(***************************************************************************)
ProviderRows == {r \in RawRows : \A col \in OHLCV : r[col].k \in {"num", "nan"}}

ProviderError == NoRawFrame

ProviderAnswers ==
    {ProviderError}
    \cup { RawFrame(cols, "DatetimeIndex", "Date", "ok", rows) :
             cols \in {OHLCV, OHLCV \ {"volume"}},
             rows \in SeqsUpTo(ProviderRows, MaxHist) }

\* pd.DataFrame()
EmptyFrame == RawFrame({}, "dates", "", "ok", <<>>)

\* Line 44 replaces the index by its dates and line 45 names it "date";
\* lines 48-51 keep the OHLCV columns the history has.
fetch_yfinance_data(answer) ==
    IF answer.kind = "None" \/ Empty(answer) THEN EmptyFrame
    ELSE RawFrame(answer.cols \cap OHLCV, "dates", "date", "ok",
                  [k \in 1..Len(answer.rows) |->
                      [answer.rows[k] EXCEPT !.at = Midnight(DateOf(@))]])

(***************************************************************************)
(* run_fetch_and_store.py.                                                 *)
(***************************************************************************)
\* config.py line 18, DEFAULT_TICKERS.
TICKERS == <<"AAPL", "MSFT", "GOOGL", "AMZN", "SPY", "BTC-USD">>

\* Lines 49-70, one pass of the loop body: the table afterwards and what
\* happened.  An exception of clean_ohlcv_data or insert_ohlcv_data leaves
\* the try block with success still False (line 67).
Entry(ticker, fetched, cleaned, attempted, committed, raised, success) ==
    [ticker |-> ticker, fetched |-> fetched, cleaned |-> cleaned,
     attempted |-> attempted, committed |-> committed, raised |-> raised,
     success |-> success]

\* A variant of the loop body with a defect the script does not have: line 49
\* sets success to True, so only the line that never runs could clear it.
LoopBodySuccessByDefault(e, exists, T, ticker, answer, dbOk) ==
    LET raw_df == fetch_yfinance_data(answer) IN
    IF Empty(raw_df)
    THEN [table |-> T, entry |-> Entry(ticker, FALSE, "", FALSE, FALSE, "", TRUE)]
    ELSE LET cleaned_df == clean_ohlcv_data(raw_df, ticker) IN
         IF cleaned_df.out = "raised"
         THEN [table |-> T,
               entry |-> Entry(ticker, TRUE, "raised", FALSE, FALSE, cleaned_df.why, TRUE)]
         ELSE IF cleaned_df.out = "None" \/ Len(cleaned_df.rows) = 0
         THEN [table |-> T, entry |-> Entry(ticker, TRUE, "None", FALSE, FALSE, "", TRUE)]
         ELSE LET ins == insert_ohlcv_data(e, exists, T,
                             DataFrame(ohlcv_table, cleaned_df.rows, "ok"), dbOk) IN
              [table |-> ins.table,
               entry |-> Entry(ticker, TRUE, "table", TRUE,
                               ins.out = "successfully inserted/updated", ins.raised, TRUE)]

\* A variant of the loop body with a defect the script does not have: line 58
\* is missing, so what the cleaner returned is handed to insert_ohlcv_data
\* even when it is None or empty.
LoopBodyUnguardedInsert(e, exists, T, ticker, answer, dbOk) ==
    LET raw_df == fetch_yfinance_data(answer) IN
    IF Empty(raw_df)
    THEN [table |-> T, entry |-> Entry(ticker, FALSE, "", FALSE, FALSE, "", FALSE)]
    ELSE LET cleaned_df == clean_ohlcv_data(raw_df, ticker) IN
         IF cleaned_df.out = "raised"
         THEN [table |-> T,
               entry |-> Entry(ticker, TRUE, "raised", FALSE, FALSE, cleaned_df.why, FALSE)]
         ELSE IF cleaned_df.out = "None" \/ Len(cleaned_df.rows) = 0
         THEN LET ins == insert_ohlcv_data(e, exists, T, NoFrame, dbOk) IN
              [table |-> ins.table,
               entry |-> Entry(ticker, TRUE, "None", TRUE, FALSE, ins.raised,
                               ins.raised = "")]
         ELSE LET ins == insert_ohlcv_data(e, exists, T,
                             DataFrame(ohlcv_table, cleaned_df.rows, "ok"), dbOk) IN
              IF ins.raised # ""
              THEN [table |-> ins.table,
                    entry |-> Entry(ticker, TRUE, "table", TRUE, FALSE, ins.raised, FALSE)]
              ELSE [table |-> ins.table,
                    entry |-> Entry(ticker, TRUE, "table", TRUE,
                                    ins.out = "successfully inserted/updated", "", TRUE)]

LoopBody(e, exists, T, ticker, answer, dbOk) ==
    LET raw_df == fetch_yfinance_data(answer) IN
    IF Empty(raw_df)
    THEN [table |-> T, entry |-> Entry(ticker, FALSE, "", FALSE, FALSE, "", FALSE)]
    ELSE LET cleaned_df == clean_ohlcv_data(raw_df, ticker) IN
         IF cleaned_df.out = "raised"
         THEN [table |-> T,
               entry |-> Entry(ticker, TRUE, "raised", FALSE, FALSE, cleaned_df.why, FALSE)]
         ELSE IF cleaned_df.out = "None" \/ Len(cleaned_df.rows) = 0
         THEN [table |-> T, entry |-> Entry(ticker, TRUE, "None", FALSE, FALSE, "", FALSE)]
         ELSE LET ins == insert_ohlcv_data(e, exists, T,
                             DataFrame(ohlcv_table, cleaned_df.rows, "ok"), dbOk) IN
              IF ins.raised # ""
              THEN [table |-> ins.table,
                    entry |-> Entry(ticker, TRUE, "table", TRUE, FALSE, ins.raised, FALSE)]
              ELSE [table |-> ins.table,
                    entry |-> Entry(ticker, TRUE, "table", TRUE,
                                    ins.out = "successfully inserted/updated", "", TRUE)]

(***************************************************************************)
(* calculate_sma, indicators.py lines 5-31.  A series is a sequence of     *)
(* whole numbers; an entry of the result is NaN or the mean sum / n, kept  *)
(* as the pair.                                                            *)
(***************************************************************************)
Undefined == [defined |-> FALSE, sum |-> 0, n |-> 1]

Mean(sum, n) == [defined |-> TRUE, sum |-> sum, n |-> n]

SmaValues == {-3, 2, 7}

\* pd.Series(dtype=float), lines 19 and 31.
EmptySeries == <<>>

\* Line 26, rolling(window, min_periods=window).mean(): the window's sum is
\* carried along the series, a sample added and the one that leaves the
\* window removed; an entry with fewer than window samples is NaN.
RECURSIVE rolling_sum(_, _, _)
rolling_sum(data_series, window, k) ==
    IF k = 0 THEN 0
    ELSE rolling_sum(data_series, window, k - 1) + data_series[k]
         - (IF k > window THEN data_series[k - window] ELSE 0)

\* A variant of the rolling mean with a defect the function does not have:
\* min_periods=1, so the first entries are means of what there is.
rolling_mean_min_periods_1(data_series, window) ==
    [k \in 1..Len(data_series) |->
        Mean(rolling_sum(data_series, window, k), IF k < window THEN k ELSE window)]

rolling_mean(data_series, window) ==
    [k \in 1..Len(data_series) |->
        IF k < window THEN Undefined
        ELSE Mean(rolling_sum(data_series, window, k), window)]

calculate_sma(data_series, window) ==
    IF Len(data_series) = 0 \/ window <= 0 THEN EmptySeries
    ELSE IF Len(data_series) < window
         THEN [k \in 1..Len(data_series) |-> Undefined]
    ELSE rolling_mean(data_series, window)

\* No call of calculate_sma yet.
NotComputed == <<[defined |-> FALSE, sum |-> 0, n |-> 0]>>

SmaIdle == smaSeries = <<>> /\ smaWindow = 1 /\ smaOut = NotComputed

(***************************************************************************)
(* States and actions.                                                     *)
(***************************************************************************)
NoCall ==
    [op |-> "none", df |-> NoFrame, ticker |-> "", start_date |-> NoDate,
     end_date |-> NoDate, out |-> "", raised |-> "", rows |-> <<>>,
     before |-> {}, ret |-> FALSE]

Pending == CleanResult("pending", "", <<>>, NoAnomalies)

\* The database as a process finds it: without the table, or with it and rows
\* its primary key has admitted.
InitDatabase ==
    /\ engine \in {"ok", "none"}
    /\ tableExists \in BOOLEAN
    /\ ohlcv_data \in InitTables
    /\ (~tableExists => ohlcv_data = {})

Init ==
    /\ InitDatabase
    /\ call = NoCall
    /\ prevRows = {}
    /\ repeated = FALSE
    /\ cleanIn = NoRawFrame
    /\ cleanOut = Pending
    /\ pc = "idle"
    /\ i = 0
    /\ total_success = 0
    /\ total_fail = 0
    /\ journal = <<>>
    /\ SmaIdle

scriptVars == <<pc, i, total_success, total_fail, journal>>
cleanVars  == <<cleanIn, cleanOut>>
smaVars    == <<smaSeries, smaWindow, smaOut>>

\* The rows of the frame the last call was given, when it was an
\* insert_ohlcv_data call with a well-formed frame.
LastInsertRows ==
    IF call.op = "insert_ohlcv_data" /\ WellFormed(call.df)
    THEN Range(call.df.rows) ELSE {}

CallCreate ==
    \E dbOk \in BOOLEAN :
        LET r == create_db_tables(engine, tableExists, dbOk) IN
        /\ tableExists' = r.exists
        /\ call' = [NoCall EXCEPT !.op = "create_db_tables", !.ret = r.ret,
                                  !.before = ohlcv_data]
        /\ prevRows' = {}
        /\ repeated' = FALSE
        /\ UNCHANGED <<engine, ohlcv_data, cleanVars, scriptVars, smaVars>>

CallInsert ==
    \E df \in InsertFrames, dbOk \in BOOLEAN :
        LET r == insert_ohlcv_data(engine, tableExists, ohlcv_data, df, dbOk) IN
        /\ ohlcv_data' = r.table
        /\ call' = [NoCall EXCEPT !.op = "insert_ohlcv_data", !.df = df,
                                  !.out = r.out, !.raised = r.raised,
                                  !.before = ohlcv_data]
        /\ prevRows' = LastInsertRows
        /\ repeated' = (call.op = "insert_ohlcv_data" /\ call.df = df)
        /\ UNCHANGED <<engine, tableExists, cleanVars, scriptVars, smaVars>>

CallFetch ==
    \E ticker \in {"TST", "OTH"}, start_date \in {NoDate} \cup Days,
       end_date \in {NoDate} \cup Days, dbOk \in BOOLEAN :
        LET r == fetch_ohlcv_data(engine, tableExists, ohlcv_data, ticker,
                                  start_date, end_date, dbOk) IN
        /\ call' = [NoCall EXCEPT !.op = "fetch_ohlcv_data", !.ticker = ticker,
                                  !.start_date = start_date, !.end_date = end_date,
                                  !.out = r.out, !.rows = r.rows,
                                  !.before = ohlcv_data]
        /\ prevRows' = {}
        /\ repeated' = FALSE
        /\ UNCHANGED <<engine, tableExists, ohlcv_data, cleanVars, scriptVars, smaVars>>

Next == CallCreate \/ CallInsert \/ CallFetch

Spec == Init /\ [][Next]_vars

\* clean_ohlcv_data on every frame of RawFrames.
CleanInit ==
    /\ engine = "ok" /\ tableExists = FALSE /\ ohlcv_data = {}
    /\ call = NoCall /\ prevRows = {} /\ repeated = FALSE
    /\ cleanIn \in RawFrames
    /\ cleanOut = Pending
    /\ pc = "idle" /\ i = 0 /\ total_success = 0 /\ total_fail = 0
    /\ journal = <<>>
    /\ SmaIdle

Clean ==
    /\ cleanOut = Pending
    /\ cleanOut' = clean_ohlcv_data(cleanIn, "TST")
    /\ UNCHANGED <<engine, tableExists, ohlcv_data, call, prevRows, repeated, cleanIn, scriptVars,
                   smaVars>>

CleanNext == Clean

CleanSpec == CleanInit /\ [][CleanNext]_vars

\* The ingestion script, from its imports to line 88.  The process starts
\* with no engine yet and the database as it finds it.
IngestInit ==
    /\ engine = "none"
    /\ tableExists \in BOOLEAN
    /\ ohlcv_data \in InitTables
    /\ (~tableExists => ohlcv_data = {})
    /\ call = NoCall /\ prevRows = {} /\ repeated = FALSE
    /\ cleanIn = NoRawFrame /\ cleanOut = Pending
    /\ pc = "import" /\ i = 0 /\ total_success = 0 /\ total_fail = 0
    /\ journal = <<>>
    /\ SmaIdle

\* os.getenv("DATABASE_URI"), config.py line 12: unset, or a connection string.
DatabaseUris == {"", "postgresql+psycopg2://"}

\* Lines 11-14 of the script.  Importing src.config raises ValueError when
\* DATABASE_URI is not set (config.py lines 14-15): nothing catches it and the
\* interpreter ends with a traceback and exit status 1.  Otherwise
\* database.py lines 11-17 make the engine, or leave it None.
Import ==
    /\ pc = "import"
    /\ \E uri \in DatabaseUris, created \in BOOLEAN :
        IF uri = ""
        THEN pc' = "import failed" /\ engine' = engine
        ELSE pc' = "setup" /\ engine' = (IF created THEN "ok" ELSE "none")
    /\ UNCHANGED <<tableExists, ohlcv_data, call, prevRows, repeated, cleanVars, i,
                   total_success, total_fail, journal, smaVars>>

\* Lines 35-37.
\* A variant of the setup with a defect the script does not have: the result
\* of create_db_tables is not looked at.
SetupIgnoringFailure ==
    /\ pc = "setup"
    /\ \E dbOk \in BOOLEAN :
        LET r == create_db_tables(engine, tableExists, dbOk) IN
        /\ tableExists' = r.exists
        /\ call' = [NoCall EXCEPT !.op = "create_db_tables", !.ret = r.ret,
                                  !.before = ohlcv_data]
        /\ pc' = "loop"
    /\ UNCHANGED <<engine, ohlcv_data, prevRows, repeated, cleanVars, i,
                   total_success, total_fail, journal, smaVars>>

Setup ==
    /\ pc = "setup"
    /\ \E dbOk \in BOOLEAN :
        LET r == create_db_tables(engine, tableExists, dbOk) IN
        /\ tableExists' = r.exists
        /\ call' = [NoCall EXCEPT !.op = "create_db_tables", !.ret = r.ret,
                                  !.before = ohlcv_data]
        /\ pc' = IF r.ret THEN "loop" ELSE "exit 1"
    /\ UNCHANGED <<engine, ohlcv_data, prevRows, repeated, cleanVars, i,
                   total_success, total_fail, journal, smaVars>>

\* A variant of the loop with a defect the script does not have: no except
\* clause, so an exception of the loop body ends the script.
ProcessTickerUncaught ==
    /\ pc = "loop"
    /\ i < Len(TICKERS)
    /\ \E answer \in ProviderAnswers, dbOk \in BOOLEAN :
        LET b == LoopBody(engine, tableExists, ohlcv_data, TICKERS[i + 1], answer, dbOk) IN
        /\ ohlcv_data' = b.table
        /\ IF b.entry.raised # ""
           THEN pc' = "traceback" /\ UNCHANGED <<i, journal, total_success, total_fail>>
           ELSE /\ pc' = pc
                /\ i' = i + 1
                /\ journal' = Append(journal, b.entry)
                /\ total_success' = IF b.entry.success THEN total_success + 1 ELSE total_success
                /\ total_fail' = IF b.entry.success THEN total_fail ELSE total_fail + 1
    /\ UNCHANGED <<engine, tableExists, call, prevRows, repeated, cleanVars, smaVars>>

\* Lines 46-79, one ticker.
ProcessTicker ==
    /\ pc = "loop"
    /\ i < Len(TICKERS)
    /\ \E answer \in ProviderAnswers, dbOk \in BOOLEAN :
        LET b == LoopBody(engine, tableExists, ohlcv_data, TICKERS[i + 1], answer, dbOk) IN
        /\ ohlcv_data' = b.table
        /\ journal' = Append(journal, b.entry)
        /\ total_success' = IF b.entry.success THEN total_success + 1 ELSE total_success
        /\ total_fail' = IF b.entry.success THEN total_fail ELSE total_fail + 1
    /\ i' = i + 1
    /\ UNCHANGED <<engine, tableExists, call, prevRows, repeated, cleanVars, pc, smaVars>>

\* Lines 81-88.
Summary ==
    /\ pc = "loop"
    /\ i = Len(TICKERS)
    /\ pc' = "summary"
    /\ UNCHANGED <<engine, tableExists, ohlcv_data, call, prevRows, repeated, cleanVars, i,
                   total_success, total_fail, journal, smaVars>>

IngestNext == Import \/ Setup \/ ProcessTicker \/ Summary

IngestSpec == IngestInit /\ [][IngestNext]_vars

\* calculate_sma on every series of up to MaxLen samples and every window
\* from -1 to one past MaxLen.
SmaInit ==
    /\ engine = "ok" /\ tableExists = FALSE /\ ohlcv_data = {}
    /\ call = NoCall /\ prevRows = {} /\ repeated = FALSE
    /\ cleanIn = NoRawFrame /\ cleanOut = Pending
    /\ pc = "idle" /\ i = 0 /\ total_success = 0 /\ total_fail = 0
    /\ journal = <<>>
    /\ smaSeries \in SeqsUpTo(SmaValues, MaxLen)
    /\ smaWindow \in -1..(MaxLen + 1)
    /\ smaOut = NotComputed

Sma ==
    /\ smaOut = NotComputed
    /\ smaOut' = calculate_sma(smaSeries, smaWindow)
    /\ UNCHANGED <<engine, tableExists, ohlcv_data, call, prevRows, repeated,
                   cleanVars, scriptVars, smaSeries, smaWindow>>

SmaNext == Sma

SmaSpec == SmaInit /\ [][SmaNext]_vars

(***************************************************************************)
(* Properties of the storage functions, under Spec.                        *)
(***************************************************************************)
IsInsert == call.op = "insert_ohlcv_data"
IsFetch  == call.op = "fetch_ohlcv_data"

RowsWithKey(T, key) == {r \in T : Key(r) = key}

NoTwoRowsOfOneDate(rows) ==
    \A a, b \in 1..Len(rows) : a # b => rows[a].date # rows[b].date

\* C1: whatever create_db_tables and insert_ohlcv_data calls have been made,
\* the table holds at most one row per (ticker, date), and a result of
\* fetch_ohlcv_data never has two rows of the same date.
C1_OneRowPerKey ==
    /\ PrimaryKeyHolds(ohlcv_data)
    /\ IsFetch => NoTwoRowsOfOneDate(call.rows)

\* C1's case: a fetch returns two or more rows of a ticker while the table
\* holds a row of another ticker for one of their dates.
C1_Witness ==
    /\ IsFetch
    /\ Len(call.rows) >= 2
    /\ \E r \in ohlcv_data : r.ticker # call.ticker /\ r.date = call.rows[1].date

\* C2: after an insert_ohlcv_data call given a record whose key the call
\* before it was given with other values, the table holds exactly one row of
\* that key, and it is the later call's record.
C2_LastWriteWins ==
    (/\ IsInsert
     /\ engine = "ok" /\ tableExists
     /\ WellFormed(call.df)
     /\ ~ProposesKeyTwice(call.df.rows)
     /\ call.out # "database error")
    => \A r \in Range(call.df.rows) :
          (\E q \in prevRows : Key(q) = Key(r) /\ q # r)
          => RowsWithKey(ohlcv_data, Key(r)) = {r}

\* C3: a second insert_ohlcv_data call with the frame of the call before it
\* leaves the table as the first call left it.
C3_SameBatchTwice ==
    (IsInsert /\ repeated) => ohlcv_data = call.before

\* C3's case: the same well-formed frame has been given twice in a row, to a
\* table that holds one of its keys with other values.
C3_Witness ==
    /\ IsInsert /\ repeated
    /\ engine = "ok" /\ tableExists
    /\ WellFormed(call.df)
    /\ \E r \in Range(call.df.rows), q \in call.before : Key(q) = Key(r) /\ q # r

\* Every record of the frame is in the table and no other key has changed.
AllApplied(before, after, rows) ==
    /\ Range(rows) \subseteq after
    /\ \A r \in after : r \in Range(rows) \/ r \in before
    /\ \A r \in before : r \in after \/ \E q \in Range(rows) : Key(q) = Key(r)

Reported == call.raised # "" \/ (call.out # "" /\ call.out # "successfully inserted/updated")

\* C4: an insert_ohlcv_data call either applies every record of its frame or
\* leaves the table as it was; it announces success only in the first case,
\* and in the second it raises or prints what went wrong.
C4_AllOrNothing ==
    IsInsert =>
        IF call.out = "successfully inserted/updated"
        THEN AllApplied(call.before, ohlcv_data, call.df.rows)
        ELSE ohlcv_data = call.before /\ Reported

\* C4's case: a call given a frame of two records with different keys, to a
\* table that lacks them, has failed.
C4_Witness ==
    /\ IsInsert
    /\ engine = "ok" /\ tableExists
    /\ WellFormed(call.df)
    /\ Len(call.df.rows) = 2 /\ ~ProposesKeyTwice(call.df.rows)
    /\ \A r \in Range(call.df.rows) : r \notin call.before
    /\ call.raised # ""

\* The rows of the ticker whose date lies in the closed range, a missing
\* bound being no bound.
InRange(T, ticker, start_date, end_date) ==
    {r \in T : /\ r.ticker = ticker
               /\ (start_date = NoDate \/ start_date <= r.date)
               /\ (end_date = NoDate \/ r.date <= end_date)}

Ascending(rows) == \A a, b \in 1..Len(rows) : a < b => rows[a].date < rows[b].date

ExactlyInRange ==
    /\ Range(call.rows) = InRange(call.before, call.ticker, call.start_date, call.end_date)
    /\ Ascending(call.rows)

\* C5 as stated: every fetch_ohlcv_data call returns exactly the stored rows
\* of the ticker in the closed date range, in ascending date order.
C5_ExactRange == IsFetch => ExactlyInRange

\* C5 amended: a fetch_ohlcv_data call whose query ran returns exactly the
\* stored rows of the ticker in the closed date range, in ascending date
\* order (none when none matches); a call without an engine, or whose query
\* failed, returns no row whatever the table holds.
C5_ExactRangeWhenQueried ==
    IsFetch => IF call.out = "fetched" THEN ExactlyInRange ELSE call.rows = <<>>

\* C5's case: a query with both bounds returns two rows and leaves out a
\* stored row of the ticker that lies outside the range.
C5_Witness ==
    /\ IsFetch /\ call.out = "fetched"
    /\ call.start_date # NoDate /\ call.end_date # NoDate
    /\ Len(call.rows) = 2
    /\ call.rows[1].date = call.start_date /\ call.rows[2].date = call.end_date
    /\ \E r \in ohlcv_data : r.ticker = call.ticker /\ r \notin Range(call.rows)

(***************************************************************************)
(* Properties of clean_ohlcv_data, under CleanSpec.                        *)
(***************************************************************************)
Returned == cleanOut.out = "table"

Parses(c) == c.k = "num" \/ c.k = "str"

\* The positions of the input rows whose five OHLCV cells all parse.
FullyNumeric == {k \in 1..Len(cleanIn.rows) : \A col \in OHLCV : Parses(cleanIn.rows[k][col])}

\* The position in the output of the input row at position k.
Rank(k) == Cardinality({n \in FullyNumeric : n <= k})

SameRecord(out, in) ==
    /\ out.ticker = "TST" /\ out.date = in.at \div 2
    /\ \A col \in OHLCV : out[col] = in[col].v

\* C6: a table returned by clean_ohlcv_data has exactly the input rows whose
\* open, high, low, close and volume all parse as numbers, in their order:
\* no row with a missing or unparsable value, and every fully numeric row,
\* the anomalous ones too, which the report counts.
C6_ExactlyTheNumericRows ==
    Returned =>
        /\ Len(cleanOut.rows) = Cardinality(FullyNumeric)
        /\ \A k \in FullyNumeric : SameRecord(cleanOut.rows[Rank(k)], cleanIn.rows[k])
        /\ cleanOut.report.invalid_hl =
              Cardinality({k \in FullyNumeric : cleanIn.rows[k].high.v < cleanIn.rows[k].low.v})

\* C6's case: of two input rows the one with an unparsable close is gone and
\* the one with High < Low, zero volume and a negative open is returned and
\* counted.
C6_Witness ==
    /\ Returned
    /\ Len(cleanIn.rows) = 2 /\ Len(cleanOut.rows) = 1
    /\ \E k \in 1..2 : cleanIn.rows[k].close.k = "bad"
    /\ cleanOut.rows[1].high < cleanOut.rows[1].low
    /\ cleanOut.rows[1].volume = 0 /\ cleanOut.rows[1].open < 0
    /\ cleanOut.report.invalid_hl = 1 /\ cleanOut.report.negative

\* C7: clean_ohlcv_data never raises to its caller; a missing OHLCV column,
\* no date key and no complete row each make it return None.
C7_NeverRaises ==
    /\ cleanOut.out # "raised"
    /\ (/\ cleanOut # Pending
        /\ \/ ~(OHLCV \subseteq cleanIn.cols)
           \/ FullyNumeric = {}
           \/ (cleanIn.index = "labels" /\ "date" \notin cleanIn.cols))
       => cleanOut.out = "None"

\* C8: a table returned by clean_ohlcv_data has at most one row per calendar
\* date.
C8_OneRowPerDate == Returned => NoTwoRowsOfOneDate(cleanOut.rows)

(***************************************************************************)
(* Properties of the ingestion script, under IngestSpec.                   *)
(***************************************************************************)
InLoopOrAfter == pc \notin {"idle", "import", "import failed", "setup", "exit 1"}

Successes == Cardinality({k \in 1..Len(journal) : journal[k].success})

\* C9: the loop processes every ticker of TICKERS once, in list order,
\* whatever the earlier iterations did; it never stops before the last
\* ticker, and total_success + total_fail counts the iterations done, so
\* Len(TICKERS) at the end.
C9_EveryTickerOnce ==
    InLoopOrAfter =>
        /\ Len(journal) = i /\ i <= Len(TICKERS)
        /\ \A k \in 1..Len(journal) : journal[k].ticker = TICKERS[k]
        /\ total_success + total_fail = i
        /\ (pc # "loop" => i = Len(TICKERS))
        /\ (pc = "loop" => ENABLED IngestNext)

\* C9's case: the run has ended after an empty fetch, a cleaning that
\* returned None and an exception, each followed by further tickers.
C9_Witness ==
    /\ pc = "summary"
    /\ ~journal[1].fetched
    /\ journal[2].cleaned = "None"
    /\ journal[3].raised # ""
    /\ ~journal[4].fetched
    /\ total_success + total_fail = 6

C11_NeverPropagates ==
    call.op \in {"create_db_tables", "insert_ohlcv_data", "fetch_ohlcv_data"} =>
        /\ call.raised = ""
        /\ (IsInsert /\ call.out # "successfully inserted/updated"
               => ohlcv_data = call.before)
        /\ (IsFetch /\ call.out # "fetched" => call.rows = <<>>)

(***************************************************************************)
(* The simple moving average, under SmaSpec.                               *)
(***************************************************************************)
Computed == smaOut # NotComputed

RECURSIVE SumOf(_, _, _)
SumOf(s, a, b) == IF a > b THEN 0 ELSE s[a] + SumOf(s, a + 1, b)

\* Entry k of the result is the arithmetic mean of the window samples that
\* end at sample k.
IsTrailingMean(k) ==
    /\ smaOut[k].defined
    /\ smaOut[k].sum * smaWindow = SumOf(smaSeries, k - smaWindow + 1, k) * smaOut[k].n

AllUndefined ==
    /\ Len(smaOut) = Len(smaSeries)
    /\ \A k \in 1..Len(smaOut) : ~smaOut[k].defined

TrailingMeans ==
    /\ Len(smaOut) = Len(smaSeries)
    /\ \A k \in 1..Len(smaOut) :
          IF k < smaWindow THEN ~smaOut[k].defined ELSE IsTrailingMean(k)

\* C12, as stated: the result of calculate_sma has the length of its input
\* for every window; with 1 <= window <= N the first window - 1 entries are
\* undefined and each later one is the mean of the window samples ending
\* there; with window <= 0 or window > N all N entries are undefined.
C12_SameLengthAlways ==
    Computed =>
        IF 1 <= smaWindow /\ smaWindow <= Len(smaSeries) THEN TrailingMeans
        ELSE AllUndefined

\* C12, amended: the same for window >= 1; with window <= 0 the result is
\* the empty series, whatever the length of the input.
C12_TrailingMeanOrEmpty ==
    Computed =>
        IF smaWindow <= 0 THEN smaOut = <<>>
        ELSE IF smaWindow <= Len(smaSeries) THEN TrailingMeans
        ELSE AllUndefined

\* A window of two over three samples: one undefined entry, then two means;
\* a second window of the same series has left the first sample behind.
C12_Witness ==
    /\ Computed
    /\ smaWindow = 2 /\ smaSeries = <<7, 2, -3>>
    /\ smaOut = <<Undefined, Mean(9, 2), Mean(-1, 2)>>

(***************************************************************************)
(* The exit status of the ingestion script, under IngestSpec.              *)
(***************************************************************************)
SchemaCreated == call.op = "create_db_tables" /\ call.ret

SchemaFailed == call.op = "create_db_tables" /\ ~call.ret

NothingProcessed ==
    /\ journal = <<>> /\ i = 0
    /\ total_success = 0 /\ total_fail = 0
    /\ ohlcv_data = call.before

NonZeroExit == pc \in {"exit 1", "import failed"}

AfterSchema ==
    /\ (pc \in {"loop", "summary"} => SchemaCreated)
    /\ (SchemaFailed => pc = "exit 1")
    /\ (pc = "loop" => ENABLED IngestNext)
    /\ (pc = "summary" => Len(journal) = Len(TICKERS))

LastEntry(j) == j[Len(j)]

\* C14: in every pass of the loop, insert_ohlcv_data is called only when the
\* fetch of that ticker was not empty and clean_ohlcv_data returned a
\* non-empty table for it; when the fetch was empty or cleaning returned None
\* or an empty table, no write is attempted, the table is as it was before
\* the pass, and total_fail goes up by one.
C14_InsertOnlyAfterFetchAndClean ==
    [][journal' # journal =>
          /\ (LastEntry(journal').attempted =>
                 /\ LastEntry(journal').fetched
                 /\ LastEntry(journal').cleaned = "table")
          /\ (~LastEntry(journal').fetched \/ LastEntry(journal').cleaned = "None" =>
                 /\ ~LastEntry(journal').attempted
                 /\ ohlcv_data' = ohlcv_data
                 /\ ~LastEntry(journal').success
                 /\ total_fail' = total_fail + 1
                 /\ total_success' = total_success)]_vars

\* C14's case: over a table that holds rows, one ticker's fetch was empty
\* and the next one's cleaning returned None; neither reached the write, the
\* table is what it was and both are counted as failed.
C14_Witness ==
    /\ Len(journal) = 2
    /\ ~journal[1].fetched /\ ~journal[1].attempted
    /\ journal[2].fetched /\ journal[2].cleaned = "None" /\ ~journal[2].attempted
    /\ ohlcv_data # {} /\ ohlcv_data = call.before
    /\ total_fail = 2
====
